---- MODULE Spec2Model ----
(***************************************************************************)
(* Model of the fitness tracker (src/app.py): the two tables of the store  *)
(* (fitness_entries, settings) on either backend, and the four routes      *)
(* GET /, POST /add, POST /set_goal and GET /health.                       *)
(*                                                                         *)
(* Text is a sequence of one-character strings, so that parsing and        *)
(* formatting are computed character by character.  A value of the         *)
(* program (a form field, a column of a row, an element of a chart series) *)
(* is a record [t, n, s]: t is its type ("null" is None/NULL, "int",       *)
(* "real" a Python float / SQLite REAL, "dec" a DECIMAL, "date" a          *)
(* datetime.date, "text" a str), n its number and s its characters.        *)
(* A date has n = year*10000 + month*100 + day.                            *)
(*                                                                         *)
(* The networked store is modelled in strict SQL mode, the server's        *)
(* default: a value a column cannot hold is an error, not a truncation.    *)
(* The form texts offered to the routes are over the characters            *)
(* 0-9, "-" and "x", with four-digit years.                                *)
(***************************************************************************)
EXTENDS Integers, Sequences, FiniteSets, TLC

VARIABLES USE_SQLITE, fitness_entries, settings, last

vars == <<USE_SQLITE, fitness_entries, settings, last>>

\* Most rows the fitness_entries table holds in the model.
MaxRows == 3

\* ------------------------------------------------------------------ values

Null == [t |-> "null", n |-> 0, s |-> <<>>]
IntV(k) == [t |-> "int", n |-> k, s |-> <<>>]
RealV(k) == [t |-> "real", n |-> k, s |-> <<>>]
DecV(k) == [t |-> "dec", n |-> k, s |-> <<>>]
DateV(k) == [t |-> "date", n |-> k, s |-> <<>>]
Text(chars) == [t |-> "text", n |-> 0, s |-> chars]

IsNumber(v) == v.t \in {"int", "real", "dec"}

\* Python truthiness of a value: None, "", and a zero number are falsy.
Truthy(v) ==
    CASE v.t = "null" -> FALSE
      [] v.t = "text" -> v.s # <<>>
      [] IsNumber(v) -> v.n # 0
      [] OTHER -> TRUE

\* request.form.get(...) or None
OrNone(v) == IF Truthy(v) THEN v ELSE Null

\* e[...] or 0
OrZero(v) == IF Truthy(v) THEN v ELSE IntV(0)

\* ------------------------------------------------------------------ text

DigitChars == <<"0", "1", "2", "3", "4", "5", "6", "7", "8", "9">>

IsDigit(c) == \E i \in 1..10 : DigitChars[i] = c

DigitVal(c) == (CHOOSE i \in 1..10 : DigitChars[i] = c) - 1

\* The byte of a character (ASCII), the order of the store's text comparison.
CharCode(c) ==
    CASE c = "-" -> 45
      [] IsDigit(c) -> 48 + DigitVal(c)
      [] OTHER -> 120

IsDigits(chars) == chars # <<>> /\ \A i \in 1..Len(chars) : IsDigit(chars[i])

RECURSIVE ToInt(_)
ToInt(chars) ==
    IF chars = <<>> THEN 0
    ELSE 10 * ToInt(SubSeq(chars, 1, Len(chars) - 1)) + DigitVal(chars[Len(chars)])

\* k written with at least `width` digits, zero-padded on the left.
RECURSIVE Pad(_, _)
Pad(k, width) ==
    IF k < 10 /\ width <= 1 THEN <<DigitChars[k + 1]>>
    ELSE Pad(k \div 10, width - 1) \o <<DigitChars[(k % 10) + 1]>>

\* The parts of chars between "-" characters.
RECURSIVE SplitDash(_)
SplitDash(chars) ==
    IF \A i \in 1..Len(chars) : chars[i] # "-" THEN <<chars>>
    ELSE LET p == CHOOSE i \in 1..Len(chars) :
                      chars[i] = "-" /\ \A j \in 1..(i - 1) : chars[j] # "-"
         IN <<SubSeq(chars, 1, p - 1)>> \o SplitDash(SubSeq(chars, p + 1, Len(chars)))

\* Bytewise comparison of two texts: a < b.
RECURSIVE TextLess(_, _)
TextLess(a, b) ==
    IF b = <<>> THEN FALSE
    ELSE IF a = <<>> THEN TRUE
    ELSE IF CharCode(a[1]) # CharCode(b[1]) THEN CharCode(a[1]) < CharCode(b[1])
    ELSE TextLess(Tail(a), Tail(b))

\* ------------------------------------------------------------------ dates

IsLeap(y) == (y % 4 = 0 /\ y % 100 # 0) \/ y % 400 = 0

DaysInMonth(y, m) ==
    IF m = 2 THEN (IF IsLeap(y) THEN 29 ELSE 28)
    ELSE IF m \in {4, 6, 9, 11} THEN 30 ELSE 31

\* The calendar date a text of the form y-m-d denotes, as year*10000 + month*100 + day;
\* -1 when the text denotes none.  Month and day may be written without padding.
ParseDate(chars) ==
    LET parts == SplitDash(chars)
    IN IF Len(parts) # 3 \/ \E i \in 1..3 : ~IsDigits(parts[i]) THEN -1
       ELSE LET yy == ToInt(parts[1])
                y == IF Len(parts[1]) = 2 THEN (IF yy < 70 THEN 2000 + yy ELSE 1900 + yy)
                     ELSE yy
                m == ToInt(parts[2])
                d == ToInt(parts[3])
            IN IF Len(parts[1]) \notin {2, 4} \/ Len(parts[2]) > 2 \/ Len(parts[3]) > 2
                  \/ y < 1000 \/ m \notin 1..12 \/ d < 1 \/ d > DaysInMonth(y, m)
               THEN -1
               ELSE y * 10000 + m * 100 + d

\* d.strftime("%Y-%m-%d")
Strftime(k) ==
    Pad(k \div 10000, 4) \o <<"-">> \o Pad((k \div 100) % 100, 2) \o <<"-">> \o Pad(k % 100, 2)

\* ------------------------------------------------------------------ store

\* What the store answers for a value a column cannot hold.
StoreError == [t |-> "error", n |-> 0, s |-> <<>>]

\* LIMIT 30 of the entry query.
Limit == 30

\* Largest value of an INT column, and of the integer part of a DECIMAL(5,2) column.
IntMax == 2147483647
DecimalMax == 999

\* entry_date: TEXT NOT NULL (embedded store), DATE NOT NULL (networked store).
ColEntryDate(sqlite, v) ==
    IF v.t # "text" THEN StoreError
    ELSE IF sqlite THEN v
    ELSE IF ParseDate(v.s) = -1 THEN StoreError ELSE DateV(ParseDate(v.s))

\* weight: REAL (embedded store: a numeric text becomes a float, any other text is
\* kept as text), DECIMAL(5,2) (networked store).
ColWeight(sqlite, v) ==
    IF v.t # "text" THEN v
    ELSE IF sqlite THEN (IF IsDigits(v.s) THEN RealV(ToInt(v.s)) ELSE v)
    ELSE IF IsDigits(v.s) /\ ToInt(v.s) <= DecimalMax THEN DecV(ToInt(v.s)) ELSE StoreError

\* calories, steps: INTEGER (embedded store: a numeric text becomes an integer, any
\* other text is kept as text), INT (networked store).
ColInteger(sqlite, v) ==
    IF v.t # "text" THEN v
    ELSE IF sqlite THEN (IF IsDigits(v.s) THEN IntV(ToInt(v.s)) ELSE v)
    ELSE IF IsDigits(v.s) /\ ToInt(v.s) <= IntMax THEN IntV(ToInt(v.s)) ELSE StoreError

\* The row INSERT INTO fitness_entries makes of its four parameters.
NewRow(sqlite, id, entry_date, weight, calories, steps) ==
    [id |-> id,
     entry_date |-> ColEntryDate(sqlite, entry_date),
     weight |-> ColWeight(sqlite, weight),
     calories |-> ColInteger(sqlite, calories),
     steps |-> ColInteger(sqlite, steps)]

RowRejected(row) ==
    \E v \in {row.entry_date, row.weight, row.calories, row.steps} : v.t = "error"

\* Order of two values of the entry_date column: texts bytewise, dates by calendar.
ColLess(a, b) ==
    IF a.t = "text" /\ b.t = "text" THEN TextLess(a.s, b.s) ELSE a.n < b.n

\* ORDER BY entry_date DESC, id DESC: row a comes before row b.
RowBefore(a, b) ==
    \/ ColLess(b.entry_date, a.entry_date)
    \/ (a.entry_date = b.entry_date /\ a.id > b.id)

RECURSIVE OrderRows(_)
OrderRows(rows) ==
    IF rows = {} THEN <<>>
    ELSE LET first == CHOOSE r \in rows : \A q \in rows \ {r} : RowBefore(r, q)
         IN <<first>> \o OrderRows(rows \ {first})

\* The rows of the entry query, in its order, with their ids.
RecentRows(table) ==
    LET ordered == OrderRows({table[i] : i \in 1..Len(table)})
    IN SubSeq(ordered, 1, IF Len(ordered) < Limit THEN Len(ordered) ELSE Limit)

\* SELECT entry_date, weight, calories, steps: the dicts index() works on.
FetchEntries(table) ==
    LET rows == RecentRows(table)
    IN [i \in 1..Len(rows) |->
          [entry_date |-> rows[i].entry_date, weight |-> rows[i].weight,
           calories |-> rows[i].calories, steps |-> rows[i].steps]]

\* SELECT value FROM settings WHERE name = 'calorie_goal'; fetchone()
GoalRows(rows) == SelectSeq(rows, LAMBDA r : r.name = "calorie_goal")

\* ------------------------------------------------------------------ GET /

\* int(row["value"]): the integer a text denotes (an optional "-" and digits), or
\* StoreError standing for the ValueError int() raises.
PyInt(v) ==
    IF v.t # "text" THEN StoreError
    ELSE IF IsDigits(v.s) THEN IntV(ToInt(v.s))
    ELSE IF v.s # <<>> /\ v.s[1] = "-" /\ IsDigits(Tail(v.s)) THEN IntV(0 - ToInt(Tail(v.s)))
    ELSE StoreError

\* calorie_goal = int(row["value"]) if row else None
ReadGoal(rows) ==
    IF GoalRows(rows) = <<>> THEN Null ELSE PyInt(GoalRows(rows)[1].value)

\* calories >= calorie_goal: the comparison with its boundary on the wrong side.
IsOverInclusive(calories, goal) == calories.n >= goal.n

\* calories > calorie_goal
IsOver(calories, goal) == calories.n > goal.n

\* The comparison of a str with an int raises TypeError.
CompareRaises(calories, goal) == ~IsNumber(calories) \/ ~IsNumber(goal)

\* The status of one entry.
StatusOf(e, goal) ==
    IF goal.t # "null"
    THEN IF e.calories.t = "null" THEN "N/A"
         ELSE IF IsOver(e.calories, goal) THEN "Over Goal"
         ELSE "Within Goal"
    ELSE "N/A"

\* The status loop: each entry, in the list's order, with its status.
Annotate(entries, goal) ==
    [i \in 1..Len(entries) |->
        [entry_date |-> entries[i].entry_date, weight |-> entries[i].weight,
         calories |-> entries[i].calories, steps |-> entries[i].steps,
         status |-> StatusOf(entries[i], goal)]]

\* The status loop raises: a goal is set and some entry's calories is no number.
AnnotateRaises(entries, goal) ==
    /\ goal.t # "null"
    /\ \E i \in 1..Len(entries) :
          entries[i].calories.t # "null" /\ CompareRaises(entries[i].calories, goal)

\* The label of a date: strftime for a date object, str() for anything else.
LabelOf(d) == IF d.t = "date" THEN Strftime(d.n) ELSE d.s

\* float(e["weight"]) if e["weight"] else None: a weight of zero taken for a missing one.
ChartWeightTruthy(w) ==
    IF Truthy(w)
    THEN (IF IsNumber(w) THEN RealV(w.n)
          ELSE IF IsDigits(w.s) THEN RealV(ToInt(w.s)) ELSE StoreError)
    ELSE Null

\* float(e["weight"]) if e["weight"] is not None else None
ChartWeight(w) ==
    IF w.t # "null"
    THEN (IF IsNumber(w) THEN RealV(w.n)
          ELSE IF IsDigits(w.s) THEN RealV(ToInt(w.s)) ELSE StoreError)
    ELSE Null

\* reversed(entries)
Reversed(seq) == [i \in 1..Len(seq) |-> seq[Len(seq) + 1 - i]]

\* The chart loop without reversed(): newest first.
ChartOrderNewestFirst(entries) == entries

\* The chart loop: the entries the four series are read from, in the series' order.
ChartOrder(entries) == Reversed(entries)

ChartLabels(entries) ==
    [i \in 1..Len(entries) |-> LabelOf(ChartOrder(entries)[i].entry_date)]

ChartWeights(entries) ==
    [i \in 1..Len(entries) |-> ChartWeight(ChartOrder(entries)[i].weight)]

ChartCalories(entries) ==
    [i \in 1..Len(entries) |-> OrZero(ChartOrder(entries)[i].calories)]

ChartSteps(entries) ==
    [i \in 1..Len(entries) |-> OrZero(ChartOrder(entries)[i].steps)]

\* The chart loop raises: float() of a text that is no number.
ChartRaises(entries) ==
    \E i \in 1..Len(entries) : ChartWeight(entries[i].weight).t = "error"

\* over_goal_flags[key] = is_over: the last entry of a date decides its flag.
FlagStepOverwrite(flags, key, is_over) ==
    [k \in (DOMAIN flags) \cup {key} |-> IF k = key THEN is_over ELSE flags[k]]

\* over_goal_flags[key] = over_goal_flags.get(key, False) or is_over
FlagStep(flags, key, is_over) ==
    [k \in (DOMAIN flags) \cup {key} |->
        IF k = key THEN (IF key \in DOMAIN flags THEN flags[key] ELSE FALSE) \/ is_over
        ELSE flags[k]]

\* The flag loop over the first k entries.
RECURSIVE FlagLoop(_, _, _)
FlagLoop(entries, goal, k) ==
    IF k = 0 THEN <<>>
    ELSE FlagStep(FlagLoop(entries, goal, k - 1),
                  LabelOf(entries[k].entry_date),
                  entries[k].calories.t # "null" /\ IsOver(entries[k].calories, goal))

OverGoalFlags(entries, goal) ==
    IF goal.t # "null" THEN FlagLoop(entries, goal, Len(entries)) ELSE <<>>

\* What render_template is given.
View(entries, goal) ==
    [entries |-> Annotate(entries, goal),
     calorie_goal |-> goal,
     over_goal_flags |-> OverGoalFlags(entries, goal),
     chart_labels |-> ChartLabels(entries),
     chart_weights |-> ChartWeights(entries),
     chart_calories |-> ChartCalories(entries),
     chart_steps |-> ChartSteps(entries)]

NoView ==
    [entries |-> <<>>, calorie_goal |-> Null, over_goal_flags |-> <<>>,
     chart_labels |-> <<>>, chart_weights |-> <<>>, chart_calories |-> <<>>,
     chart_steps |-> <<>>]

\* ------------------------------------------------------------------ requests

NoForm ==
    [date |-> Null, weight |-> Null, calories |-> Null, steps |-> Null,
     calorie_goal |-> Null]

\* An answer: the route and form of the request, the HTTP status, the flashed message,
\* the body of an error answer and, for a rendered page, the view.
Answer(route, form, status, flash, body, view) ==
    [route |-> route, form |-> form, status |-> status, flash |-> flash,
     body |-> body, view |-> view]

Redirect(route, form, flash) == Answer(route, form, 302, flash, "", NoView)

\* get_db_connection() succeeds or raises.
ConnOutcomes == {"ok", "fail"}

Init ==
    /\ USE_SQLITE \in BOOLEAN
    /\ fitness_entries = <<>>
    /\ settings = <<>>
    /\ last = Answer("none", NoForm, 0, "", "", NoView)

\* GET /
index(conn) ==
    LET goal == ReadGoal(settings)
        entries == FetchEntries(fitness_entries)
    IN /\ last' =
            IF conn = "fail"
            THEN Answer("index", NoForm, 500,  "",
                        IF USE_SQLITE THEN "App error" ELSE "Database error", NoView)
            ELSE IF goal.t = "error"
            THEN Answer("index", NoForm, 500, "", "App error: invalid literal for int()",
                        NoView)
            ELSE IF AnnotateRaises(entries, goal) \/ ChartRaises(entries)
            THEN Answer("index", NoForm, 500, "", "Internal Server Error", NoView)
            ELSE Answer("index", NoForm, 200, "", "", View(entries, goal))
       /\ UNCHANGED <<USE_SQLITE, fitness_entries, settings>>

\* if entry_date is None: an empty date passes.
DateIsNone(entry_date) == entry_date.t = "null"

\* if not entry_date
DateMissing(entry_date) == ~Truthy(entry_date)

\* No conn.commit(): the transaction is lost when the connection closes.
NoCommit(before, after) == before

\* conn.commit(): the table as the transaction left it replaces the table before it.
Commit(before, after) == after

\* POST /add
add_entry(form, conn) ==
    LET entry_date == form.date
        weight == OrNone(form.weight)
        calories == OrNone(form.calories)
        steps == OrNone(form.steps)
        row == NewRow(USE_SQLITE, Len(fitness_entries) + 1, entry_date, weight,
                      calories, steps)
    IN IF DateMissing(entry_date)
       THEN /\ last' = Redirect("add", form, "Date is required.")
            /\ UNCHANGED <<USE_SQLITE, fitness_entries, settings>>
       ELSE IF conn = "fail" \/ RowRejected(row)
       THEN /\ last' = Redirect("add", form, "Error adding entry")
            /\ UNCHANGED <<USE_SQLITE, fitness_entries, settings>>
       ELSE /\ Len(fitness_entries) < MaxRows
            /\ fitness_entries' = Commit(fitness_entries, Append(fitness_entries, row))
            /\ last' = Redirect("add", form, "Entry added.")
            /\ UNCHANGED <<USE_SQLITE, settings>>

\* if not goal
GoalMissing(goal) == ~Truthy(goal)

\* Longest value of the settings table's VARCHAR(255) column.
VarcharMax == 255

\* DELETE FROM settings WHERE name = 'calorie_goal'
DeleteGoal(rows) == SelectSeq(rows, LAMBDA r : r.name # "calorie_goal")

\* INSERT INTO settings (name, value): name is UNIQUE, value is TEXT or VARCHAR(255).
\* The answer is the rows after it, or <<StoreError>> when the store refuses the row.
InsertSetting(sqlite, rows, name, value) ==
    IF \/ \E i \in 1..Len(rows) : rows[i].name = name
       \/ value.t # "text"
       \/ (~sqlite /\ Len(value.s) > VarcharMax)
    THEN <<StoreError>>
    ELSE Append(rows, [name |-> name, value |-> value])

\* POST /set_goal
set_goal(form, conn) ==
    LET goal == form.calorie_goal
        after == InsertSetting(USE_SQLITE, DeleteGoal(settings), "calorie_goal", goal)
    IN IF GoalMissing(goal)
       THEN /\ last' = Redirect("set_goal", form, "Calorie goal cannot be empty.")
            /\ UNCHANGED <<USE_SQLITE, fitness_entries, settings>>
       ELSE IF conn = "fail" \/ after = <<StoreError>>
       THEN /\ last' = Redirect("set_goal", form, "Error updating goal")
            /\ UNCHANGED <<USE_SQLITE, fitness_entries, settings>>
       ELSE /\ settings' = Commit(settings, after)
            /\ last' = Redirect("set_goal", form, "Calorie goal updated.")
            /\ UNCHANGED <<USE_SQLITE, fitness_entries>>

\* GET /health
health(conn) ==
    /\ last' = IF conn = "ok" THEN Answer("health", NoForm, 200, "", "OK", NoView)
               ELSE Answer("health", NoForm, 500, "", "DB error", NoView)
    /\ UNCHANGED <<USE_SQLITE, fitness_entries, settings>>

\* ------------------------------------------------------------------ inputs

Oct1 == <<"2", "0", "2", "4", "-", "1", "0", "-", "0", "1">>
Sep1 == <<"2", "0", "2", "4", "-", "9", "-", "0", "1">>
Five == <<"5">>
Seven == <<"7">>
Zero == <<"0">>
Junk == <<"x">>

AddForm(date, weight, calories, steps) ==
    [date |-> date, weight |-> weight, calories |-> calories, steps |-> steps,
     calorie_goal |-> Null]

\* The forms POST /add is sent: a field is absent (Null), empty, a number or junk.
AddForms ==
    { AddForm(Text(Oct1), Text(Zero), Text(Seven), Text(Five)),
      AddForm(Text(Oct1), Null, Text(Five), Text(<<>>)),
      AddForm(Text(Sep1), Text(Five), Null, Null),
      AddForm(Text(Oct1), Text(Five), Text(Junk), Text(Five)),
      AddForm(Text(Sep1), Text(Junk), Text(Five), Text(Junk)),
      AddForm(Text(Junk), Text(Five), Text(Five), Text(Five)),
      AddForm(Null, Text(Five), Text(Five), Text(Five)),
      AddForm(Text(<<>>), Text(Five), Text(Seven), Null) }

GoalForm(goal) ==
    [date |-> Null, weight |-> Null, calories |-> Null, steps |-> Null,
     calorie_goal |-> goal]

\* The forms POST /set_goal is sent.
GoalForms ==
    { GoalForm(Null), GoalForm(Text(<<>>)), GoalForm(Text(Five)), GoalForm(Text(Seven)),
      GoalForm(Text(Junk)) }

Next ==
    \/ \E form \in AddForms, conn \in ConnOutcomes : add_entry(form, conn)
    \/ \E form \in GoalForms, conn \in ConnOutcomes : set_goal(form, conn)
    \/ \E conn \in ConnOutcomes : index(conn)
    \/ \E conn \in ConnOutcomes : health(conn)

Spec == Init /\ [][Next]_vars

\* ------------------------------------------------------------------ properties

\* The last request was GET / and the page was rendered.
Shown == last.route = "index" /\ last.status = 200

\* The entries and the goal row the store holds; GET / changes neither, so in a state
\* where Shown holds they are what the page was computed from.
StoredEntries == FetchEntries(fitness_entries)
GoalUnset == GoalRows(settings) = <<>>

\* C1: on a rendered page, entry i of the page is entry i of the entry list with a
\* status added; the status is "N/A" if the goal is unset or the entry's calories is
\* unset, otherwise "Over Goal" exactly when calories > goal and "Within Goal" otherwise.
C1_StatusPerEntry ==
    Shown =>
        LET shown == last.view.entries
            goal == last.view.calorie_goal
        IN /\ Len(shown) = Len(StoredEntries)
           /\ (goal.t = "null") <=> GoalUnset
           /\ \A i \in 1..Len(shown) :
                 /\ shown[i].entry_date = StoredEntries[i].entry_date
                 /\ shown[i].weight = StoredEntries[i].weight
                 /\ shown[i].calories = StoredEntries[i].calories
                 /\ shown[i].steps = StoredEntries[i].steps
                 /\ shown[i].status =
                       IF GoalUnset \/ StoredEntries[i].calories.t = "null" THEN "N/A"
                       ELSE IF StoredEntries[i].calories.n > goal.n THEN "Over Goal"
                       ELSE "Within Goal"

\* A rendered page with an entry whose calories equals the goal ("Within Goal"), an
\* entry over the goal and an entry without calories.
C1_Witness ==
    /\ Shown
    /\ \E i, j, k \in 1..Len(last.view.entries) :
          /\ last.view.entries[i].calories = last.view.calorie_goal
          /\ last.view.entries[i].status = "Within Goal"
          /\ last.view.entries[j].status = "Over Goal"
          /\ last.view.entries[k].calories.t = "null"
          /\ last.view.entries[k].status = "N/A"

\* C2: on a rendered page, when the goal is unset the flag map is empty; when it is
\* set the map's keys are the date labels of the entries, and the flag of a label is
\* true exactly when some entry with that label has calories set and above the goal.
C2_OverGoalFlags ==
    Shown =>
        LET flags == last.view.over_goal_flags
            goal == last.view.calorie_goal
            n == Len(StoredEntries)
        IN IF GoalUnset THEN DOMAIN flags = {}
           ELSE /\ DOMAIN flags = {LabelOf(StoredEntries[i].entry_date) : i \in 1..n}
                /\ \A key \in DOMAIN flags :
                      flags[key] <=>
                         \E i \in 1..n :
                            /\ LabelOf(StoredEntries[i].entry_date) = key
                            /\ StoredEntries[i].calories.t # "null"
                            /\ StoredEntries[i].calories.n > goal.n

\* A rendered page with a goal and two entries of one date, the newer one over the
\* goal and the older one not: the date's flag is true.
C2_Witness ==
    /\ Shown
    /\ ~GoalUnset
    /\ \E i, j \in 1..Len(StoredEntries) :
          /\ i < j
          /\ StoredEntries[i].entry_date = StoredEntries[j].entry_date
          /\ StoredEntries[i].calories.t = "int"
          /\ StoredEntries[j].calories.t = "int"
          /\ StoredEntries[i].calories.n > last.view.calorie_goal.n
          /\ StoredEntries[j].calories.n <= last.view.calorie_goal.n
          /\ last.view.over_goal_flags[LabelOf(StoredEntries[i].entry_date)]

\* C3: on a rendered page of n entries each of the four chart series has length n, and
\* element i of each series is derived from entry n+1-i of the entry list (counting
\* from 1), so the first element is that of the last, oldest entry.
C3_ChartSeriesReversed ==
    Shown =>
        LET n == Len(StoredEntries)
            v == last.view
        IN /\ Len(v.chart_labels) = n
           /\ Len(v.chart_weights) = n
           /\ Len(v.chart_calories) = n
           /\ Len(v.chart_steps) = n
           /\ \A i \in 1..n :
                 LET e == StoredEntries[n + 1 - i]
                 IN /\ v.chart_labels[i] = LabelOf(e.entry_date)
                    /\ v.chart_weights[i] = ChartWeight(e.weight)
                    /\ v.chart_calories[i] = OrZero(e.calories)
                    /\ v.chart_steps[i] = OrZero(e.steps)

\* A rendered page of at least two entries whose first and last entries differ in
\* date, weight, calories and steps.
C3_Witness ==
    /\ Shown
    /\ Len(StoredEntries) >= 2
    /\ LET first == StoredEntries[1]
           oldest == StoredEntries[Len(StoredEntries)]
       IN /\ LabelOf(first.entry_date) # LabelOf(oldest.entry_date)
          /\ ChartWeight(first.weight) # ChartWeight(oldest.weight)
          /\ OrZero(first.calories) # OrZero(oldest.calories)
          /\ OrZero(first.steps) # OrZero(oldest.steps)

\* C4: on a rendered page, the weight series holds the missing marker for an entry
\* without a weight and the entry's weight (zero included) for an entry with one; the
\* calories and steps series hold 0 for an absent value and the value itself otherwise.
C4_MissingValuePolicy ==
    Shown =>
        LET n == Len(StoredEntries)
            v == last.view
        IN \A i \in 1..n :
              LET e == StoredEntries[n + 1 - i]
              IN /\ e.weight.t = "null" => v.chart_weights[i] = Null
                 /\ e.weight.t # "null" =>
                       /\ IsNumber(v.chart_weights[i])
                       /\ v.chart_weights[i].n = e.weight.n
                 /\ e.calories.t = "null" => v.chart_calories[i] = IntV(0)
                 /\ e.calories.t # "null" => v.chart_calories[i] = e.calories
                 /\ e.steps.t = "null" => v.chart_steps[i] = IntV(0)
                 /\ e.steps.t # "null" => v.chart_steps[i] = e.steps

\* A rendered page with an entry of weight 0, an entry without weight, an entry
\* without calories and an entry without steps.
C4_Witness ==
    /\ Shown
    /\ \E i, j, k, l \in 1..Len(StoredEntries) :
          /\ StoredEntries[i].weight.t # "null" /\ StoredEntries[i].weight.n = 0
          /\ StoredEntries[j].weight.t = "null"
          /\ StoredEntries[k].calories.t = "null"
          /\ StoredEntries[l].steps.t = "null"
          /\ StoredEntries[i].calories.t = "int"

\* A text of the form YYYY-MM-DD: ten characters, digits but for the two dashes.
IsIsoDate(chars) ==
    /\ Len(chars) = 10
    /\ \A i \in 1..10 : IF i \in {5, 8} THEN chars[i] = "-" ELSE IsDigit(chars[i])

\* C5: on a rendered page every chart label and every key of the flag map is a date in
\* the form YYYY-MM-DD with zero-padded month and day.
C5_IsoLabels ==
    Shown =>
        /\ \A i \in 1..Len(last.view.chart_labels) : IsIsoDate(last.view.chart_labels[i])
        /\ \A key \in DOMAIN last.view.over_goal_flags : IsIsoDate(key)

\* C6: a POST /add whose date is missing or empty, and a POST /set_goal whose
\* calorie_goal is missing or empty, is answered with a redirect and its error
\* message and leaves the entries and the settings as they were.
C6_ValidationNoMutation ==
    [][ /\ (last'.route = "add" /\ last'.form.date \in {Null, Text(<<>>)}) =>
             /\ fitness_entries' = fitness_entries
             /\ settings' = settings
             /\ last'.status = 302
             /\ last'.flash = "Date is required."
        /\ (last'.route = "set_goal" /\ last'.form.calorie_goal \in {Null, Text(<<>>)}) =>
             /\ fitness_entries' = fitness_entries
             /\ settings' = settings
             /\ last'.status = 302
             /\ last'.flash = "Calorie goal cannot be empty."
      ]_vars

\* A POST /add with an empty date was refused while the store held entries and a goal.
C6_Witness ==
    /\ last.route = "add"
    /\ last.form.date = Text(<<>>)
    /\ last.flash = "Date is required."
    /\ fitness_entries # <<>>
    /\ settings # <<>>

\* C7: the settings hold at most one calorie_goal row; a set_goal that succeeds leaves
\* exactly the row with the value it was given; every other request, POST /add
\* included, leaves the settings as they were.
C7_SingleGoalLastWriteWins ==
    /\ [](Len(GoalRows(settings)) <= 1)
    /\ [][ IF last'.route = "set_goal" /\ last'.flash = "Calorie goal updated."
           THEN GoalRows(settings') =
                   <<[name |-> "calorie_goal", value |-> last'.form.calorie_goal]>>
           ELSE settings' = settings
         ]_vars

\* A set_goal succeeded with the value 7 and the store holds entries.
C7_Witness ==
    /\ last.route = "set_goal"
    /\ last.flash = "Calorie goal updated."
    /\ last.form.calorie_goal = Text(Seven)
    /\ GoalRows(settings) = <<[name |-> "calorie_goal", value |-> Text(Seven)]>>
    /\ fitness_entries # <<>>

\* The last request was GET / and it read the entry list: the connection was made and
\* the goal was read.
Fetched ==
    /\ last.route = "index"
    /\ last.body \notin {"App error", "Database error", "App error: invalid literal for int()"}

\* C8: every entry of the entry list GET / computes on has each of weight, calories
\* and steps absent or a number.
C8_NumericFields ==
    Fetched =>
        \A i \in 1..Len(StoredEntries) :
           \A v \in {StoredEntries[i].weight, StoredEntries[i].calories,
                     StoredEntries[i].steps} :
              v.t = "null" \/ IsNumber(v)

\* The calendar date of a stored entry_date, -1 when it denotes none.
CalendarDate(d) == IF d.t = "date" THEN d.n ELSE ParseDate(d.s)

\* C9: the entry list GET / uses has at most 30 entries, no entry left out of it is
\* later than one in it, and it is in descending order of calendar date, entries of one
\* date newest insertion first.
C9_RecentOrder ==
    Fetched =>
    LET rows == RecentRows(fitness_entries)
        dated == {r \in {rows[i] : i \in 1..Len(rows)} : CalendarDate(r.entry_date) # -1}
    IN /\ Len(rows) <= 30
       /\ Len(rows) = IF Len(fitness_entries) < 30 THEN Len(fitness_entries) ELSE 30
       /\ \A i \in 1..Len(fitness_entries) :
             fitness_entries[i] \notin {rows[j] : j \in 1..Len(rows)} =>
                \A r \in dated :
                   CalendarDate(fitness_entries[i].entry_date) <= CalendarDate(r.entry_date)
       /\ \A i, j \in 1..Len(rows) :
             (i < j /\ rows[i] \in dated /\ rows[j] \in dated) =>
                \/ CalendarDate(rows[i].entry_date) > CalendarDate(rows[j].entry_date)
                \/ /\ CalendarDate(rows[i].entry_date) = CalendarDate(rows[j].entry_date)
                   /\ rows[i].id > rows[j].id

\* C10: the goal GET / reads is unset or an integer, and GET / never answers 500
\* because of the stored goal.
C10_GoalReadable ==
    last.route = "index" =>
        /\ ReadGoal(settings).t \in {"null", "int"}
        /\ last.body # "App error: invalid literal for int()"

====
